---- MODULE Spec2Model ----
(***************************************************************************)
(* Policy enforcer: world state (policy_enforcer/state), item catalogue    *)
(* (policy_enforcer/items.py), business rules (policy_enforcer/rules),     *)
(* the policy-enforced tools (policy_enforcer/tools, sk_tools.py) and the  *)
(* ReAct control loop (policy_enforcer/react_agent.py).                    *)
(*                                                                         *)
(* Conventions of the translation                                          *)
(*   - a Python str is a TLA+ string; a formatted message is the sequence  *)
(*     of its pieces (fixed phrases and interpolated values) in order;     *)
(*   - Optional[T] is None == <<>> or Some(x) == <<x>>;                    *)
(*   - str.lower() and the ordering used by sorted() are given on the      *)
(*     finite universe of names the model draws its inputs from.           *)
(***************************************************************************)
EXTENDS Integers, Sequences, FiniteSets, TLC

\* ------------------------------------------------------------------ bounds
MaxHistory == 3      \* purchases per behaviour (length of shopping_history)
MaxIterations == 3   \* max_iterations given to the ReAct agent

\* ---------------------------------------------------------------- Optional
None == <<>>
Some(x) == <<x>>
IsNone(o) == o = <<>>
Value(o) == o[1]

\* ------------------------------------------------------------------ strings
\* str.lower() on the names the model uses; a name without an upper-case
\* letter is its own lower-case form.
Lower(s) ==
  CASE s = "TV" -> "tv"
    [] s = "Tv" -> "tv"
    [] s = "Xbox" -> "xbox"
    [] s = "XBOX" -> "xbox"
    [] s = "Hiking Boots" -> "hiking boots"
    [] s = "Goggles" -> "goggles"
    [] s = "GOGGLES" -> "goggles"
    [] s = "Sunscreen" -> "sunscreen"
    [] s = "Laptop" -> "laptop"
    [] OTHER -> s

\* The names of the model in the order Python compares str (by code point).
NameOrder ==
  << "", "GOGGLES", "Goggles", "Hiking Boots", "Laptop", "Sunscreen", "TV", "Tv",
     "XBOX", "Xbox", "goggles", "hiking boots", "laptop", "sunscreen", "tv", "xbox" >>

Rank(s) == CHOOSE i \in DOMAIN NameOrder : NameOrder[i] = s

RECURSIVE Sorted(_)
\* sorted(set of str): ascending list.
Sorted(S) ==
  IF S = {} THEN <<>>
  ELSE LET m == CHOOSE x \in S : \A y \in S : Rank(x) <= Rank(y)
       IN <<m>> \o Sorted(S \ {m})

RECURSIVE Join(_, _)
\* sep.join(list): the elements with the separator between neighbours.
Join(sep, xs) ==
  IF Len(xs) = 0 THEN <<>>
  ELSE IF Len(xs) = 1 THEN <<xs[1]>>
  ELSE <<xs[1], sep>> \o Join(sep, Tail(xs))

\* `piece in message`
Contains(msg, piece) == \E i \in DOMAIN msg : msg[i] = piece

\* ------------------------------------------------------------------- enums
SUNNY == "sunny"
RAINING == "raining"
SNOWING == "snowing"
UNKNOWN == "unknown"
WeatherCondition == {SUNNY, RAINING, SNOWING, UNKNOWN}

PLAY_GAMES == "Play games"
GO_CAMPING == "Go Camping"
SWIMMING == "Swimming"
\* [a.value for a in Activity]
Activity == <<PLAY_GAMES, GO_CAMPING, SWIMMING>>
ActivityValues == {Activity[i] : i \in DOMAIN Activity}

\* Item enum, in definition order (iteration order of `for item in Item`).
Item == <<"TV", "Xbox", "Hiking Boots", "Goggles", "Sunscreen">>
ItemValues == {Item[i] : i \in DOMAIN Item}

\* ------------------------------------------------------- ItemRequirements
REQ_PLAY_GAMES == <<"TV", "Xbox">>
REQ_GO_CAMPING == <<"Hiking Boots">>
REQ_SWIMMING == <<"Goggles">>

get_requirements_for_activity(activity) ==
  IF activity = PLAY_GAMES THEN REQ_PLAY_GAMES
  ELSE IF activity = GO_CAMPING THEN REQ_GO_CAMPING
  ELSE IF activity = SWIMMING THEN REQ_SWIMMING
  ELSE <<>>

get_missing_items(activity, user_items) ==
  LET required == get_requirements_for_activity(activity)
      user_items_lower == {Lower(item) : item \in user_items}
  IN SelectSeq(required, LAMBDA item : Lower(item) \notin user_items_lower)

\* Variant: validation that compares the spelling as given.
is_valid_item_exact(item_name) ==
  \E i \in DOMAIN Item : Item[i] = item_name

is_valid_item(item_name) ==
  IF item_name = "" THEN FALSE
  ELSE \E i \in DOMAIN Item : Lower(Item[i]) = Lower(item_name)

get_all_items == Item

normalize_item_name(item_name) ==
  IF item_name = "" THEN item_name
  ELSE IF \E i \in DOMAIN Item : Lower(Item[i]) = Lower(item_name)
       THEN LET i == CHOOSE j \in DOMAIN Item :
                       /\ Lower(Item[j]) = Lower(item_name)
                       /\ \A k \in 1..(j - 1) : Lower(Item[k]) # Lower(item_name)
            IN Item[i]
       ELSE item_name

\* -------------------------------------------------------------- AgentState
\* AgentState(): the field defaults.
NewAgentState ==
  [ inventory |-> {},
    weather |-> UNKNOWN,
    weather_checked |-> FALSE,
    chosen_activity |-> None,
    shopping_history |-> <<>> ]

\* Variant: a purchase already in the set leaves no trace in the history.
add_to_inventory_once(st, item) ==
  LET normalized_item == normalize_item_name(item)
  IN IF normalized_item \in st.inventory THEN st
     ELSE [st EXCEPT !.inventory = @ \cup {normalized_item},
                     !.shopping_history = Append(@, normalized_item)]

\* Variant: a name that matches no registered item is dropped.
add_to_inventory_validated(st, item) ==
  IF ~is_valid_item(item) THEN st
  ELSE LET normalized_item == normalize_item_name(item)
       IN [st EXCEPT !.inventory = @ \cup {normalized_item},
                     !.shopping_history = Append(@, normalized_item)]

add_to_inventory(st, item) ==
  LET normalized_item == normalize_item_name(item)
  IN [st EXCEPT !.inventory = @ \cup {normalized_item},
                !.shopping_history = Append(@, normalized_item)]

\* Variant: membership that ignores letter case.
has_item_any_case(st, item) == \E x \in st.inventory : Lower(x) = Lower(item)

has_item(st, item) == item \in st.inventory

has_items(st, items) == \A i \in DOMAIN items : has_item(st, items[i])

\* Variant: a setter that also forgets the chosen activity.
set_weather_clearing(st, weather) ==
  [st EXCEPT !.weather = weather, !.weather_checked = TRUE, !.chosen_activity = None]

\* Variant: a setter that forgets the flag.
set_weather_value_only(st, weather) ==
  [st EXCEPT !.weather = weather]

set_weather(st, weather) ==
  [st EXCEPT !.weather = weather, !.weather_checked = TRUE]

set_activity(st, activity) ==
  [st EXCEPT !.chosen_activity = Some(activity)]

\* ------------------------------------------------------------------- rules
\* Variant: a denial that carries no reason.
Deny_silent(reason) == [allowed |-> FALSE, reason |-> None]

Allow == [allowed |-> TRUE, reason |-> None]
Deny(reason) == [allowed |-> FALSE, reason |-> Some(reason)]

\* Variant: no equipment is asked for.
PlayGamesRule_off(st, activity) == Allow

\* Variant: the denial lists every required item, owned or not.
PlayGamesRule_lists_all(st, activity) ==
  IF activity # PLAY_GAMES THEN Allow
  ELSE LET missing_items == get_missing_items(activity, st.inventory)
       IN IF Len(missing_items) = 0 THEN Allow
          ELSE Deny(<<"Cannot play games. Missing required items:">>
                      \o Join(",", get_requirements_for_activity(activity)))

PlayGamesRule(st, activity) ==
  IF activity # PLAY_GAMES THEN Allow
  ELSE LET missing_items == get_missing_items(activity, st.inventory)
       IN IF Len(missing_items) = 0 THEN Allow
          ELSE Deny(<<"Cannot play games. Missing required items:">>
                      \o Join(",", missing_items))

CampingEquipmentRule(st, activity) ==
  IF activity # GO_CAMPING THEN Allow
  ELSE LET missing_items == get_missing_items(activity, st.inventory)
       IN IF Len(missing_items) = 0 THEN Allow
          ELSE Deny(<<"Cannot go camping. Missing required item:", "Hiking Boots">>)

\* Variant: swimming asks for no equipment.
SwimmingEquipmentRule_off(st, activity) == Allow

SwimmingEquipmentRule(st, activity) ==
  IF activity # SWIMMING THEN Allow
  ELSE LET missing_items == get_missing_items(activity, st.inventory)
       IN IF Len(missing_items) = 0 THEN Allow
          ELSE Deny(<<"Cannot go swimming. Missing required item:", "Goggles">>)

\* Variant: the camping weather rule keyed on the wrong condition.
CampingWeatherRule_snowing(st, activity) ==
  IF activity # GO_CAMPING THEN Allow
  ELSE IF st.weather = SNOWING
       THEN Deny(<<"Cannot go camping because it's", "snowing">>)
       ELSE Allow

CampingWeatherRule(st, activity) ==
  IF activity # GO_CAMPING THEN Allow
  ELSE IF st.weather = RAINING
       THEN Deny(<<"Cannot go camping because it's", "raining">>)
       ELSE Allow

SwimmingWeatherRule(st, activity) ==
  IF activity # SWIMMING THEN Allow
  ELSE IF st.weather = SNOWING
       THEN Deny(<<"Cannot go swimming because it's", "snowing">>)
       ELSE Allow

\* Variant: the unknown-weather rule left out.
UnknownWeatherRule_off(st, activity) == Allow

\* Variant: unknown weather forbids every activity, games included.
UnknownWeatherRule_no_exception(st, activity) ==
  IF st.weather # UNKNOWN THEN Allow
  ELSE Deny(<<"Weather is", "unknown", ". You can only play games until weather is checked">>)

UnknownWeatherRule(st, activity) ==
  IF st.weather # UNKNOWN THEN Allow
  ELSE IF activity = PLAY_GAMES THEN Allow
  ELSE Deny(<<"Weather is", "unknown", ". You can only play games until weather is checked">>)

\* Variant: the recheck rule keyed on a tool name no tool has.
WeatherCheckRule_wrong_name(st, tool_name) ==
  IF tool_name # "weather" THEN Allow
  ELSE IF st.weather_checked /\ st.weather # UNKNOWN
       THEN Deny(<<"Weather has", "already been checked",
                   "and is known. Cannot check weather again">>)
       ELSE Allow

WeatherCheckRule(st, tool_name) ==
  IF tool_name # "check_weather" THEN Allow
  ELSE IF st.weather_checked /\ st.weather # UNKNOWN
       THEN Deny(<<"Weather has", "already been checked",
                   "and is known. Cannot check weather again">>)
       ELSE Allow

\* Variant: the weather rules registered ahead of the equipment rules.
ActivityRuleResults_weather_first(st, activity) ==
  << CampingWeatherRule(st, activity),
     SwimmingWeatherRule(st, activity),
     UnknownWeatherRule(st, activity),
     PlayGamesRule(st, activity),
     CampingEquipmentRule(st, activity),
     SwimmingEquipmentRule(st, activity) >>

\* RuleEngine.rules restricted to the activity rules, in list order.
ActivityRuleResults(st, activity) ==
  << PlayGamesRule(st, activity),
     CampingEquipmentRule(st, activity),
     SwimmingEquipmentRule(st, activity),
     CampingWeatherRule(st, activity),
     SwimmingWeatherRule(st, activity),
     UnknownWeatherRule(st, activity) >>

\* Variant: the loop keeps going and the last denial wins.
LastDenial(results) ==
  IF \E i \in DOMAIN results : ~results[i].allowed
  THEN results[CHOOSE i \in DOMAIN results :
                 /\ ~results[i].allowed
                 /\ \A j \in (i + 1)..Len(results) : results[j].allowed]
  ELSE [allowed |-> TRUE, reason |-> None]

\* The first result of the list that is not allowed, else RuleResult(allowed=True).
FirstDenial(results) ==
  IF \E i \in DOMAIN results : ~results[i].allowed
  THEN results[CHOOSE i \in DOMAIN results :
                 /\ ~results[i].allowed
                 /\ \A j \in 1..(i - 1) : results[j].allowed]
  ELSE Allow

check_activity_rules(st, activity) == FirstDenial(ActivityRuleResults(st, activity))

check_tool_rules(st, tool_name) == FirstDenial(<<WeatherCheckRule(st, tool_name)>>)

\* ------------------------------------------------------------ tool messages
\* `if rule_violation:` on an Optional[str]
Truthy(o) == ~IsNone(o) /\ Value(o) # <<>>

RuleViolationMsg(reason) == <<"(x)", "Rule violation:">> \o reason

\* ', '.join(sorted(state.inventory)) if state.inventory else 'Empty'
InventoryListing(st) ==
  IF st.inventory # {} THEN Join(",", Sorted(st.inventory)) ELSE <<"Empty">>

\* A tool's effect: the state it leaves and the string it returns.
Ret(st, out) == [state |-> st, out |-> out]

\* --------------------------------------------- tools/__init__.py (LangChain)
validate_item_input(item) ==
  IF ~is_valid_item(item)
  THEN Some(<<"Invalid item", item, ". Available items:">> \o Join(",", get_all_items))
  ELSE None

\* PolicyEnforcedTool.check_tool_rules
Tool_check_tool_rules(st, name) ==
  LET result == check_tool_rules(st, name)
  IN IF ~result.allowed THEN result.reason ELSE None

CheckWeatherTool_execute(st, new_weather) ==
  IF st.weather_checked /\ st.weather # UNKNOWN
  THEN Ret(st, <<"Weather already checked! Current weather:", st.weather,
                 "Weather status: Known and checked">>)
  ELSE Ret(set_weather(st, new_weather),
           <<"Weather check complete! Current weather:", new_weather,
             "Weather status: Known and checked">>)

\* PolicyEnforcedTool._run for check_weather; new_weather is random.choice's draw.
CheckWeatherTool_run(st, new_weather) ==
  LET rule_violation == Tool_check_tool_rules(st, "check_weather")
  IN IF Truthy(rule_violation)
     THEN Ret(st, RuleViolationMsg(Value(rule_violation)))
     ELSE CheckWeatherTool_execute(st, new_weather)

ShoppingTool_execute(st, item) ==
  IF item = "" THEN Ret(st, <<"(x)", "No item specified for purchase.">>)
  ELSE LET validation_error == validate_item_input(item)
       IN IF Truthy(validation_error)
          THEN Ret(st, <<"(x)">> \o Value(validation_error))
          ELSE LET st2 == add_to_inventory(st, item)
               IN Ret(st2, <<"Successfully purchased:", item, ". Added to inventory!",
                             "Current inventory:">> \o InventoryListing(st2))

\* PolicyEnforcedTool._run for shopping
ShoppingTool_run(st, item) ==
  LET rule_violation == Tool_check_tool_rules(st, "shopping")
  IN IF Truthy(rule_violation)
     THEN Ret(st, RuleViolationMsg(Value(rule_violation)))
     ELSE ShoppingTool_execute(st, item)

InvalidActivityMsg == <<"(x)", "Invalid activity. Choose from:">> \o Join(",", Activity)

ChooseActivityTool_check_tool_rules(st, activity) ==
  LET rule_violation == Tool_check_tool_rules(st, "choose_activity")
  IN IF Truthy(rule_violation) THEN rule_violation
     ELSE IF activity # ""
          THEN LET result == check_activity_rules(st, activity)
               IN IF ~result.allowed THEN result.reason ELSE None
          ELSE None

ChooseActivityTool_execute(st, activity) ==
  IF activity = "" THEN Ret(st, <<"(x)", "No activity specified.">>)
  ELSE IF activity \notin ActivityValues THEN Ret(st, InvalidActivityMsg)
  ELSE LET st2 == set_activity(st, activity)
       IN Ret(st2, <<"Activity chosen:", activity, "! Have fun!",
                     "Current activity:", activity,
                     "Current inventory:">> \o InventoryListing(st2))

\* Variant: _run without the rule check.
ChooseActivityTool_run_unchecked(st, activity) ==
  ChooseActivityTool_execute(st, activity)

\* Variant: the inherited _run, which consults the rules before looking at the input.
ChooseActivityTool_run_rules_first(st, activity) ==
  LET rule_violation == ChooseActivityTool_check_tool_rules(st, activity)
  IN IF Truthy(rule_violation)
     THEN Ret(st, RuleViolationMsg(Value(rule_violation)))
     ELSE ChooseActivityTool_execute(st, activity)

\* ChooseActivityTool._run
ChooseActivityTool_run(st, activity) ==
  IF activity = "" THEN Ret(st, <<"(x)", "No activity specified.">>)
  ELSE IF activity \notin ActivityValues THEN Ret(st, InvalidActivityMsg)
  ELSE LET rule_violation == ChooseActivityTool_check_tool_rules(st, activity)
       IN IF Truthy(rule_violation)
          THEN Ret(st, RuleViolationMsg(Value(rule_violation)))
          ELSE ChooseActivityTool_execute(st, activity)

StateReport(st) ==
  <<"Current Agent State:", "Inventory:">> \o InventoryListing(st)
    \o <<"Weather:", st.weather, IF st.weather_checked THEN "(Known)" ELSE "(Unknown)",
         "Current Activity:",
         IF IsNone(st.chosen_activity) THEN "None chosen" ELSE Value(st.chosen_activity)>>

\* PolicyEnforcedTool._run for check_state
CheckStateTool_run(st) ==
  LET rule_violation == Tool_check_tool_rules(st, "check_state")
  IN IF Truthy(rule_violation)
     THEN Ret(st, RuleViolationMsg(Value(rule_violation)))
     ELSE Ret(st, StateReport(st))

\* ------------------------------------------------ sk_tools.py (Semantic Kernel)
\* PolicyEnforcedPlugin.check_tool_rules
Plugin_check_tool_rules(st, tool_name) ==
  LET result == check_tool_rules(st, tool_name)
  IN IF ~result.allowed THEN result.reason ELSE None

\* PolicyEnforcedPlugin.check_activity_rules
Plugin_check_activity_rules(st, activity) ==
  LET result == check_activity_rules(st, activity)
  IN IF ~result.allowed THEN result.reason ELSE None

WeatherPlugin_check_weather(st, new_weather) ==
  LET rule_violation == Plugin_check_tool_rules(st, "check_weather")
  IN IF Truthy(rule_violation) THEN Ret(st, RuleViolationMsg(Value(rule_violation)))
     ELSE IF st.weather_checked /\ st.weather # UNKNOWN
          THEN Ret(st, <<"Weather already checked! Current weather:", st.weather,
                         "Weather status: Known and checked">>)
          ELSE Ret(set_weather(st, new_weather),
                   <<"Weather check complete! Current weather:", new_weather,
                     "Weather status: Known and checked">>)

\* Variant: the plugin accepts a catalog name in the catalog's spelling only.
ShoppingPlugin_shopping_exact(st, item) ==
  IF item = "" THEN Ret(st, <<"(x)", "No item specified for purchase.">>)
  ELSE IF ~is_valid_item_exact(item)
       THEN Ret(st, <<"(x)", "Invalid item", item, ". Available items:">>
                      \o Join(",", get_all_items))
       ELSE LET st2 == add_to_inventory(st, item)
            IN Ret(st2, <<"Successfully purchased:", item, ". Added to inventory!",
                          "Current inventory:">> \o InventoryListing(st2))

ShoppingPlugin_shopping(st, item) ==
  IF item = "" THEN Ret(st, <<"(x)", "No item specified for purchase.">>)
  ELSE LET rule_violation == Plugin_check_tool_rules(st, "shopping")
       IN IF Truthy(rule_violation) THEN Ret(st, RuleViolationMsg(Value(rule_violation)))
          ELSE IF ~is_valid_item(item)
               THEN Ret(st, <<"(x)", "Invalid item", item, ". Available items:">>
                              \o Join(",", get_all_items))
               ELSE LET st2 == add_to_inventory(st, item)
                    IN Ret(st2, <<"Successfully purchased:", item, ". Added to inventory!",
                                  "Current inventory:">> \o InventoryListing(st2))

ActivityPlugin_choose_activity(st, activity) ==
  IF activity = "" THEN Ret(st, <<"(x)", "No activity specified.">>)
  ELSE IF activity \notin ActivityValues THEN Ret(st, InvalidActivityMsg)
  ELSE LET rule_violation == Plugin_check_activity_rules(st, activity)
           tool_rule_violation == Plugin_check_tool_rules(st, "choose_activity")
       IN IF Truthy(rule_violation) THEN Ret(st, RuleViolationMsg(Value(rule_violation)))
          ELSE IF Truthy(tool_rule_violation)
               THEN Ret(st, RuleViolationMsg(Value(tool_rule_violation)))
               ELSE LET st2 == set_activity(st, activity)
                    IN Ret(st2, <<"Activity chosen:", activity, "! Have fun!",
                                  "Current activity:", activity,
                                  "Current inventory:">> \o InventoryListing(st2))

StatePlugin_check_state(st) == Ret(st, StateReport(st))

\* ------------------------------------------------- react_agent.py: parsing
\* A text is the sequence of its pieces; "" is <<>>.  A line of a response is
\* <<marker, text>>: the literal the stripped line starts with, and the stripped rest.
Text(s) == IF s = "" THEN <<>> ELSE <<s>>
Str(t) == IF t = <<>> THEN "" ELSE t[1]
Line(marker, s) == <<marker, Text(s)>>
startswith(line, prefix) == line[1] = prefix

\* A JSON value: its type and, for an object, its key/value pairs.
Dict(items) == [type |-> "dict", items |-> items]
JsonList == [type |-> "list", items |-> {}]
EmptyDict == Dict({})

\* json.loads on the action-input texts of the model; ok = FALSE is JSONDecodeError.
json_loads(input_str) ==
  CASE input_str = "{}" -> [ok |-> TRUE, value |-> EmptyDict]
    [] input_str = "{\"item\": \"tv\"}" -> [ok |-> TRUE, value |-> Dict({<<"item", "tv">>})]
    [] input_str = "{\"item\": \"XBOX\"}" -> [ok |-> TRUE, value |-> Dict({<<"item", "XBOX">>})]
    [] input_str = "{\"activity\": \"Play games\"}"
         -> [ok |-> TRUE, value |-> Dict({<<"activity", PLAY_GAMES>>})]
    [] input_str = "[1]" -> [ok |-> TRUE, value |-> JsonList]
    [] OTHER -> [ok |-> FALSE, value |-> EmptyDict]

\* ReActIteration(): __post_init__ replaces a None action_input by {}.
NewIteration ==
  [thought |-> "", action |-> "", action_input |-> EmptyDict, observation |-> <<>>]

\* One line of the loop of _parse_response: the iteration it leaves and the
\* final answer it returns, if it returns.
ParseLine(line, cur) ==
  IF startswith(line, "Thought:")
  THEN [cur |-> [cur EXCEPT !.thought = Str(line[2])], final |-> None]
  ELSE IF startswith(line, "Action:")
  THEN [cur |-> [cur EXCEPT !.action = Str(line[2])], final |-> None]
  ELSE IF startswith(line, "Action Input:")
  THEN LET input_str == Str(line[2])
           parsed == json_loads(input_str)
       IN [cur |-> [cur EXCEPT !.action_input =
                      IF input_str = "" THEN EmptyDict
                      ELSE IF parsed.ok THEN parsed.value
                      ELSE Dict({<<"input", input_str>>})],
           final |-> None]
  ELSE IF startswith(line, "Final Answer:")
  THEN [cur |-> cur, final |-> Some(line[2])]
  ELSE [cur |-> cur, final |-> None]

RECURSIVE _parse_response(_, _)
\* The lines in order; the first 'Final Answer:' line returns its text.  final is
\* None when the function returns None.
_parse_response(lines, cur) ==
  IF lines = <<>> THEN [cur |-> cur, final |-> None]
  ELSE LET step == ParseLine(Head(lines), cur)
       IN IF ~IsNone(step.final) THEN step
          ELSE _parse_response(Tail(lines), step.cur)

\* --------------------------------------------- react_agent.py: tool dispatch
\* The kernel's plugins in registration order (agents.py: get_plugins order, named
\* by class name without "Plugin", lower-cased); each exports one function.
Plugins == <<"weather", "shopping", "activity", "state">>
\* A kernel a ReActAgent can be handed as well: the WeatherPlugin added a second time
\* under another plugin name, so that two plugins export check_weather.
PluginsTwice == Plugins \o <<"weather2">>
PluginFunction(plugin) ==
  CASE plugin = "weather" -> "check_weather"
    [] plugin = "shopping" -> "shopping"
    [] plugin = "activity" -> "choose_activity"
    [] plugin = "state" -> "check_state"
    [] plugin = "weather2" -> "check_weather"

\* '.' in action, and action.split('.', 1), on the action names of the model.
HasDot(action) ==
  action \in {"weather.check_weather", "shopping.shopping", "activity.choose_activity",
              "state.check_state", "nosuch.check_weather", "weather.nosuch"}
split_first_dot(action) ==
  CASE action = "weather.check_weather" -> <<"weather", "check_weather">>
    [] action = "shopping.shopping" -> <<"shopping", "shopping">>
    [] action = "activity.choose_activity" -> <<"activity", "choose_activity">>
    [] action = "state.check_state" -> <<"state", "check_state">>
    [] action = "nosuch.check_weather" -> <<"nosuch", "check_weather">>
    [] action = "weather.nosuch" -> <<"weather", "nosuch">>

\* Variant: a bare name exported by more than one plugin resolves to none.
FindPlugin_unique(plugins, function_name) ==
  IF \E i \in DOMAIN plugins :
       /\ PluginFunction(plugins[i]) = function_name
       /\ \A j \in DOMAIN plugins \ {i} : PluginFunction(plugins[j]) # function_name
  THEN Some(plugins[CHOOSE i \in DOMAIN plugins : PluginFunction(plugins[i]) = function_name])
  ELSE None

\* The scan of kernel.get_functions_metadata(): the first plugin exporting the name.
FindPlugin(plugins, function_name) ==
  IF \E i \in DOMAIN plugins : PluginFunction(plugins[i]) = function_name
  THEN Some(plugins[CHOOSE i \in DOMAIN plugins :
                      /\ PluginFunction(plugins[i]) = function_name
                      /\ \A j \in 1..(i - 1) : PluginFunction(plugins[j]) # function_name])
  ELSE None

HasKey(d, key) == \E kv \in d.items : kv[1] = key
Get(d, key) == (CHOOSE kv \in d.items : kv[1] = key)[2]

\* What one tool execution yields: the state left, the observation string, whether a
\* plugin function ran, and which exception was raised (and caught) on the way: none,
\* lookup (kernel.get_function) or tool (building the arguments, function.invoke).
Exec(st, out, invoked, raised) ==
  [state |-> st, out |-> out, invoked |-> invoked, raised |-> raised]

ErrorExecuting(st, action, raised) ==
  Exec(st, <<"(x)", "Error executing action", action>>, FALSE, raised)

\* function.invoke(kernel, arguments): binds the function's parameters and runs it.
InvokeFunction(st, action, function_name, arguments, new_weather) ==
  CASE function_name = "check_weather" ->
         LET r == WeatherPlugin_check_weather(st, new_weather)
         IN Exec(r.state, r.out, TRUE, "none")
    [] function_name = "shopping" ->
         IF ~HasKey(arguments, "item") THEN ErrorExecuting(st, action, "tool")
         ELSE LET r == ShoppingPlugin_shopping(st, Get(arguments, "item"))
              IN Exec(r.state, r.out, TRUE, "none")
    [] function_name = "choose_activity" ->
         IF ~HasKey(arguments, "activity") THEN ErrorExecuting(st, action, "tool")
         ELSE LET r == ActivityPlugin_choose_activity(st, Get(arguments, "activity"))
              IN Exec(r.state, r.out, TRUE, "none")
    [] function_name = "check_state" ->
         LET r == StatePlugin_check_state(st)
         IN Exec(r.state, r.out, TRUE, "none")

\* Variant: a name that resolves to nothing falls back to the weather check.
_execute_action_lenient(plugins, st, action, action_input, new_weather) ==
  LET dotted == HasDot(action)
      function_name == IF dotted THEN split_first_dot(action)[2] ELSE action
      plugin_name == IF dotted THEN Some(split_first_dot(action)[1])
                     ELSE FindPlugin(plugins, function_name)
  IN IF \/ IsNone(plugin_name)
        \/ ~(\E i \in DOMAIN plugins :
                /\ plugins[i] = Value(plugin_name)
                /\ PluginFunction(plugins[i]) = function_name)
     THEN InvokeFunction(st, action, "check_weather", EmptyDict, new_weather)
     ELSE IF action_input.type # "dict"
     THEN ErrorExecuting(st, action, "tool")
     ELSE InvokeFunction(st, action, function_name, action_input, new_weather)

\* plugins is self.kernel's registry in registration order.
_execute_action(plugins, st, action, action_input, new_weather) ==
  LET dotted == HasDot(action)
      function_name == IF dotted THEN split_first_dot(action)[2] ELSE action
      plugin_name == IF dotted THEN Some(split_first_dot(action)[1])
                     ELSE FindPlugin(plugins, function_name)
  IN IF IsNone(plugin_name) \/ Value(plugin_name) = ""
     THEN Exec(st, <<"(x)", "Could not find plugin for function:", action>>, FALSE, "none")
     ELSE IF ~(\E i \in DOMAIN plugins :
                 /\ plugins[i] = Value(plugin_name)
                 /\ PluginFunction(plugins[i]) = function_name)
     THEN ErrorExecuting(st, action, "lookup")       \* kernel.get_function raises
     ELSE IF action_input.type # "dict"
     THEN ErrorExecuting(st, action, "tool")       \* KernelArguments(**action_input) raises
     ELSE InvokeFunction(st, action, function_name, action_input, new_weather)

\* ===================================================================== state
VARIABLES
  agent_state,       \* state/__init__.py: the module-level AgentState every get_state() returns
  call,              \* the operation performed last: [tool, arg, by]
  result,            \* the string that operation returned (None before any call)
  rule_result,       \* the RuleResult the last direct rule check returned (None before any)
  pc,                \* where run_async stands: idle, loop, streaming, executing, done
  iteration_num,     \* run_async: the for loop's counter
  chat_history,      \* ReActAgent.chat_history: messages [role, content]
  current_iteration, \* run_async: the ReActIteration being filled
  response_text,     \* run_async: the response received in this turn
  run_result,        \* what run_async returned: None, or Some([kind, text])
  sent,              \* the content handed to reasoning_agent.invoke by the last request
  requests,          \* number of completion requests issued by the run
  tool_calls,        \* number of plugin functions run by the run
  raised,            \* the exception raised in the last step of the run: none, client,
                     \* lookup, tool
  kernel             \* ReActAgent.kernel: the plugins registered, in registration order

worldVars == <<agent_state, call, result, rule_result>>
loopVars == <<pc, iteration_num, chat_history, current_iteration, response_text,
              run_result, sent, requests, tool_calls, raised, kernel>>
vars == <<worldVars, loopVars>>

\* ------------------------------------------------------------------ inputs
\* The agent instances of the process on whose behalf tools are called.
Agents == {1, 2}
\* random.choice(weather_options)
weather_options == {SUNNY, RAINING, SNOWING}
ShoppingArgs == {"tv", "XBOX", "Hiking Boots", "Goggles", "Sunscreen", "Laptop", ""}
ActivityArgs == {PLAY_GAMES, GO_CAMPING, SWIMMING, "play games", "Unknown Activity", ""}
ToolNames == {"check_weather", "shopping", "choose_activity", "check_state"}
\* Inventories a rule can be handed (state.inventory is a plain set of str).
InventoryNames == {"TV", "tv", "Xbox", "XBOX", "Hiking Boots", "hiking boots", "Goggles", "Laptop"}

NoCall == [tool |-> "", arg |-> "", by |-> 0]

\* Variant: an instance with a state object of its own.
get_state_private(a) == IF a = 1 THEN agent_state ELSE NewAgentState

\* get_state(): every caller reads the one module-level object.
get_state(a) == agent_state

InitWorld ==
  /\ agent_state = NewAgentState
  /\ call = NoCall
  /\ result = None
  /\ rule_result = None

InitLoop ==
  /\ pc = "idle"
  /\ iteration_num = 0
  /\ chat_history = <<>>
  /\ current_iteration = NewIteration
  /\ response_text = <<>>
  /\ run_result = None
  /\ sent = <<>>
  /\ requests = 0
  /\ tool_calls = 0
  /\ raised = "none"
  /\ kernel = Plugins

Init == InitWorld /\ InitLoop

\* ------------------------------------------------------------ tool actions
ToolCall(a, tool, arg, r) ==
  /\ agent_state' = r.state
  /\ call' = [tool |-> tool, arg |-> arg, by |-> a]
  /\ result' = r.out
  /\ UNCHANGED <<rule_result, loopVars>>

CheckWeather(a) ==
  \E new_weather \in weather_options :
    ToolCall(a, "check_weather", "", CheckWeatherTool_run(get_state(a), new_weather))

Shopping(a) ==
  \E item \in ShoppingArgs :
    /\ Len(agent_state.shopping_history) < MaxHistory
    /\ ToolCall(a, "shopping", item, ShoppingTool_run(get_state(a), item))

ChooseActivity(a) ==
  \E activity \in ActivityArgs :
    ToolCall(a, "choose_activity", activity, ChooseActivityTool_run(get_state(a), activity))

CheckState(a) ==
  ToolCall(a, "check_state", "", CheckStateTool_run(get_state(a)))

Next ==
  \E a \in Agents :
    \/ CheckWeather(a)
    \/ Shopping(a)
    \/ ChooseActivity(a)
    \/ CheckState(a)

\* The tools called in any order, from the state of a fresh process.
Spec == Init /\ [][Next]_vars

\* ---------------------------------------------- direct use of the state API
SetWeather ==
  \E weather \in WeatherCondition :
    /\ agent_state' = set_weather(agent_state, weather)
    /\ call' = [tool |-> "set_weather", arg |-> weather, by |-> 0]
    /\ UNCHANGED <<result, rule_result, loopVars>>

\* Variant: a reset that keeps what was bought.
ResetState_keeps_inventory ==
  /\ agent_state' = [NewAgentState EXCEPT !.inventory = agent_state.inventory]
  /\ call' = [tool |-> "reset_state", arg |-> "", by |-> 0]
  /\ UNCHANGED <<result, rule_result, loopVars>>

\* reset_state(): rebinds the module-level object to a new AgentState().
ResetState ==
  /\ agent_state' = NewAgentState
  /\ call' = [tool |-> "reset_state", arg |-> "", by |-> 0]
  /\ UNCHANGED <<result, rule_result, loopVars>>

NextState ==
  \/ Next
  \/ SetWeather
  \/ ResetState

\* The tools together with the setters a host calls directly.
SpecState == Init /\ [][NextState]_vars

\* -------------------------------------------------- the rule engine by itself
InitRules ==
  /\ agent_state \in [ inventory : SUBSET InventoryNames,
                       weather : WeatherCondition,
                       weather_checked : BOOLEAN,
                       chosen_activity : {None},
                       shopping_history : {<<>>} ]
  /\ call = NoCall
  /\ result = None
  /\ rule_result = None
  /\ InitLoop

CheckActivityRules ==
  \E activity \in ActivityArgs :
    /\ rule_result' = Some(check_activity_rules(agent_state, activity))
    /\ call' = [tool |-> "check_activity_rules", arg |-> activity, by |-> 0]
    /\ UNCHANGED <<agent_state, result, loopVars>>

\* Variant: a tool-rule check that marks the weather as checked.
CheckToolRules_touching ==
  \E tool_name \in ToolNames :
    /\ rule_result' = Some(check_tool_rules(agent_state, tool_name))
    /\ call' = [tool |-> "check_tool_rules", arg |-> tool_name, by |-> 0]
    /\ agent_state' = [agent_state EXCEPT !.weather_checked = TRUE]
    /\ UNCHANGED <<result, loopVars>>

CheckToolRules ==
  \E tool_name \in ToolNames :
    /\ rule_result' = Some(check_tool_rules(agent_state, tool_name))
    /\ call' = [tool |-> "check_tool_rules", arg |-> tool_name, by |-> 0]
    /\ UNCHANGED <<agent_state, result, loopVars>>

NextRules ==
  \/ CheckActivityRules
  \/ CheckToolRules

\* check_activity_rules / check_tool_rules applied to every state of the bounded input sets.
SpecRules == InitRules /\ [][NextRules]_vars

\* ------------------------------- the two tool variants on the same states
\* Names add_to_inventory may have been given before: it stores a catalog name in
\* the catalog's spelling and any other name as it is.
StoredNames == {"TV", "Xbox", "Hiking Boots", "Goggles", "Laptop"}
RECURSIVE Histories(_)
Histories(n) ==
  IF n = 0 THEN {<<>>}
  ELSE LET shorter == Histories(n - 1)
       IN shorter \cup {Append(h, item) : h \in shorter, item \in StoredNames}

\* The states the AgentState methods can leave: the inventory holds what was added,
\* a known weather is a checked one, any activity may have been set.
InitVariants ==
  /\ \E h \in Histories(MaxHistory - 1), weather \in WeatherCondition,
        weather_checked \in BOOLEAN, chosen \in {None} \cup {Some(v) : v \in ActivityValues} :
       /\ weather # UNKNOWN => weather_checked
       /\ agent_state = [ inventory |-> {h[i] : i \in DOMAIN h},
                          weather |-> weather,
                          weather_checked |-> weather_checked,
                          chosen_activity |-> chosen,
                          shopping_history |-> h ]
  /\ call = NoCall
  /\ result = None
  /\ rule_result = None
  /\ InitLoop

\* One call of a LangChain tool through _run.
LangChainCall ==
  /\ call = NoCall
  /\ Next

\* One call of a Semantic Kernel plugin function, named plugin.function.
PluginCall(function, arg, r) ==
  /\ call = NoCall
  /\ agent_state' = r.state
  /\ call' = [tool |-> function, arg |-> arg, by |-> 0]
  /\ result' = r.out
  /\ UNCHANGED <<rule_result, loopVars>>

PluginCheckWeather ==
  \E new_weather \in weather_options :
    PluginCall("weather.check_weather", "", WeatherPlugin_check_weather(agent_state, new_weather))

PluginShopping ==
  \E item \in ShoppingArgs :
    PluginCall("shopping.shopping", item, ShoppingPlugin_shopping(agent_state, item))

PluginChooseActivity ==
  \E activity \in ActivityArgs :
    PluginCall("activity.choose_activity", activity,
               ActivityPlugin_choose_activity(agent_state, activity))

PluginCheckState ==
  PluginCall("state.check_state", "", StatePlugin_check_state(agent_state))

NextVariants ==
  \/ LangChainCall
  \/ PluginCheckWeather
  \/ PluginShopping
  \/ PluginChooseActivity
  \/ PluginCheckState

\* One call of either variant on every state of the bounded input sets.
SpecVariants == InitVariants /\ [][NextVariants]_vars

\* ------------------------------------------- the inventory API by itself
\* Names handed to add_to_inventory and has_item: catalog names and a name
\* outside the catalog, each in two spellings.
AddArgs == {"TV", "tv", "Xbox", "XBOX", "Laptop", "laptop"}
HasItemsArgs == {<<item>> : item \in AddArgs} \cup {<<"TV", "Xbox">>}

\* state.add_to_inventory(item): returns None.
AddToInventory ==
  \E item \in AddArgs :
    /\ Len(agent_state.shopping_history) < MaxHistory
    /\ agent_state' = add_to_inventory(agent_state, item)
    /\ call' = [tool |-> "add_to_inventory", arg |-> item, by |-> 0]
    /\ result' = None
    /\ UNCHANGED <<rule_result, loopVars>>

\* state.has_item(item): the returned bool.
HasItem ==
  \E item \in AddArgs :
    /\ result' = Some(has_item(agent_state, item))
    /\ call' = [tool |-> "has_item", arg |-> item, by |-> 0]
    /\ UNCHANGED <<agent_state, rule_result, loopVars>>

\* state.has_items(items): the returned bool.
HasItems ==
  \E items \in HasItemsArgs :
    /\ result' = Some(has_items(agent_state, items))
    /\ call' = [tool |-> "has_items", arg |-> items, by |-> 0]
    /\ UNCHANGED <<agent_state, rule_result, loopVars>>

NextInventory ==
  \/ AddToInventory
  \/ HasItem
  \/ HasItems
  \/ ResetState

\* add_to_inventory, has_item, has_items and reset_state called directly, in any order.
SpecInventory == Init /\ [][NextInventory]_vars

\* ------------------------------------------------------------ the ReAct loop
\* What the completion client may answer: each response is its list of lines.
RespWeather ==
  << Line("Thought:", "check the weather"), Line("Action:", "weather.check_weather"),
     Line("Action Input:", "{}") >>
RespDone == << Line("Thought:", "finished"), Line("Final Answer:", "Done") >>
RespThoughtOnly == << Line("Thought:", "let me think") >>
RespBuyTv ==
  << Line("Action:", "shopping.shopping"), Line("Action Input:", "{\"item\": \"tv\"}") >>
RespBuyXboxAndAnswer ==
  << Line("Action:", "shopping.shopping"), Line("Action Input:", "{\"item\": \"XBOX\"}"),
     Line("Final Answer:", "Bought"), Line("Final Answer:", "Second") >>
RespPlay ==
  << Line("Action:", "activity.choose_activity"),
     Line("Action Input:", "{\"activity\": \"Play games\"}") >>
RespUnknownTool == << Line("Action:", "weather.nosuch"), Line("Action Input:", "{}") >>
RespBareName == << Line("Action:", "check_weather") >>
RespBadJson == << Line("Action:", "shopping.shopping"), Line("Action Input:", "not json") >>
RespList == << Line("Action:", "shopping.shopping"), Line("Action Input:", "[1]") >>
RespInputOnly == << Line("Action Input:", "{\"item\": \"tv\"}") >>
RespEmptyAnswer ==
  << Line("Action:", "weather.check_weather"), Line("Action Input:", "{}"),
     Line("Final Answer:", "") >>
RespLowerCase == << Line("final answer:", "done"), Line("action:", "weather.check_weather") >>
RespUnknownPlugin == << Line("Action:", "nosuch.check_weather"), Line("Action Input:", "{}") >>
RespBareUnknown == << Line("Action:", "nosuch"), Line("Action Input:", "{}") >>
RespActionOnly == << Line("Action:", "shopping.shopping") >>

Responses ==
  { RespWeather, RespDone, RespThoughtOnly, RespBuyTv, RespBuyXboxAndAnswer, RespPlay,
    RespUnknownTool, RespBareName, RespBadJson, RespList, RespInputOnly, RespEmptyAnswer,
    RespLowerCase, RespUnknownPlugin, RespBareUnknown, RespActionOnly }

Message(role, content) == [role |-> role, content |-> content]

\* run_async up to the loop: a new ChatHistory holding the question.
StartRun ==
  /\ pc = "idle"
  /\ chat_history' = <<Message("user", <<Line("Question:", "q")>>)>>
  /\ current_iteration' = NewIteration
  /\ iteration_num' = 0
  /\ pc' = "loop"
  /\ raised' = "none"
  /\ UNCHANGED <<worldVars, kernel, response_text, run_result, sent, requests, tool_calls>>

\* Variant: the loop bound off by one.
Request_off_by_one ==
  /\ pc = "loop"
  /\ iteration_num <= MaxIterations
  /\ sent' = IF Len(chat_history) > 0 THEN chat_history[Len(chat_history)].content
             ELSE <<Line("Question:", "q")>>
  /\ requests' = requests + 1
  /\ pc' = "streaming"
  /\ raised' = "none"
  /\ UNCHANGED <<worldVars, kernel, iteration_num, chat_history, current_iteration,
                 response_text, run_result, tool_calls>>

\* Top of the for loop with an iteration left: the last message goes to the client.
Request ==
  /\ pc = "loop"
  /\ iteration_num < MaxIterations
  /\ sent' = IF Len(chat_history) > 0 THEN chat_history[Len(chat_history)].content
             ELSE <<Line("Question:", "q")>>
  /\ requests' = requests + 1
  /\ pc' = "streaming"
  /\ raised' = "none"
  /\ UNCHANGED <<worldVars, kernel, iteration_num, chat_history, current_iteration,
                 response_text, run_result, tool_calls>>

\* The for loop is exhausted: the maximum-iterations string is returned.
Exhausted ==
  /\ pc = "loop"
  /\ iteration_num >= MaxIterations
  /\ run_result' = Some([kind |-> "max_iterations",
                         text |-> <<"(x)", "Maximum iterations reached without finding a final answer.">>])
  /\ pc' = "done"
  /\ raised' = "none"
  /\ UNCHANGED <<worldVars, kernel, iteration_num, chat_history, current_iteration,
                 response_text, sent, requests, tool_calls>>

\* Variant: a response without an action leaves no trace in the chat history.
Receive_drop_stalled ==
  /\ pc = "streaming"
  /\ \E response \in Responses :
       LET parsed == _parse_response(response, current_iteration)
           final_answer == parsed.final
           has_action == parsed.cur.action # ""
       IN /\ response_text' = response
          /\ current_iteration' = parsed.cur
          /\ raised' = "none"
          /\ IF Truthy(final_answer)
             THEN /\ run_result' = Some([kind |-> "final", text |-> Value(final_answer)])
                  /\ pc' = "done"
                  /\ UNCHANGED <<chat_history, iteration_num>>
             ELSE IF has_action
             THEN /\ pc' = "executing"
                  /\ UNCHANGED <<run_result, chat_history, iteration_num>>
             ELSE /\ iteration_num' = iteration_num + 1
                  /\ pc' = "loop"
                  /\ UNCHANGED <<run_result, chat_history>>
  /\ UNCHANGED <<worldVars, kernel, sent, requests, tool_calls>>

\* The response has been streamed completely: it is parsed and the turn decided.
Receive ==
  /\ pc = "streaming"
  /\ \E response \in Responses :
       LET parsed == _parse_response(response, current_iteration)
           final_answer == parsed.final
           has_action == parsed.cur.action # ""
       IN /\ response_text' = response
          /\ current_iteration' = parsed.cur
          /\ raised' = "none"
          /\ IF Truthy(final_answer)
             THEN /\ run_result' = Some([kind |-> "final", text |-> Value(final_answer)])
                  /\ pc' = "done"
                  /\ UNCHANGED <<chat_history, iteration_num>>
             ELSE IF has_action
             THEN /\ pc' = "executing"
                  /\ UNCHANGED <<run_result, chat_history, iteration_num>>
             ELSE /\ chat_history' = Append(chat_history, Message("assistant", response))
                  /\ iteration_num' = iteration_num + 1
                  /\ pc' = "loop"
                  /\ UNCHANGED run_result
  /\ UNCHANGED <<worldVars, kernel, sent, requests, tool_calls>>

\* Variant: the except clause swallows the error and the loop goes on.
ClientError_swallowed ==
  /\ pc = "streaming"
  /\ raised' = "client"
  /\ iteration_num' = iteration_num + 1
  /\ pc' = "loop"
  /\ UNCHANGED <<worldVars, kernel, chat_history, current_iteration, run_result,
                 response_text, sent, requests, tool_calls>>

\* The completion client raises while the response is awaited: the except clause
\* of run_async returns the error string.
ClientError ==
  /\ pc = "streaming"
  /\ raised' = "client"
  /\ run_result' = Some([kind |-> "error", text |-> <<"(x)", "Error in iteration">>])
  /\ pc' = "done"
  /\ UNCHANGED <<worldVars, kernel, iteration_num, chat_history, current_iteration,
                 response_text, sent, requests, tool_calls>>

\* Variant: the turn's response is recorded without the observation.
ExecuteAction_no_observation ==
  /\ pc = "executing"
  /\ \E new_weather \in weather_options :
       LET r == _execute_action(kernel, agent_state, current_iteration.action,
                                current_iteration.action_input, new_weather)
       IN /\ agent_state' = r.state
          /\ tool_calls' = IF r.invoked THEN tool_calls + 1 ELSE tool_calls
          /\ raised' = r.raised
          /\ chat_history' = Append(chat_history, Message("assistant", response_text))
  /\ current_iteration' = NewIteration
  /\ iteration_num' = iteration_num + 1
  /\ pc' = "loop"
  /\ UNCHANGED <<call, result, rule_result, response_text, run_result, sent, requests,
                 kernel>>

\* _execute_action_with_feedback returns: the observation is appended and a new
\* ReActIteration started.
ExecuteAction ==
  /\ pc = "executing"
  /\ \E new_weather \in weather_options :
       LET r == _execute_action(kernel, agent_state, current_iteration.action,
                                current_iteration.action_input, new_weather)
       IN /\ agent_state' = r.state
          /\ tool_calls' = IF r.invoked THEN tool_calls + 1 ELSE tool_calls
          /\ raised' = r.raised
          /\ chat_history' = chat_history
                               \o << Message("assistant", response_text),
                                     Message("user", <<<<"Observation:", r.out>>>>) >>
  /\ current_iteration' = NewIteration
  /\ iteration_num' = iteration_num + 1
  /\ pc' = "loop"
  /\ UNCHANGED <<call, result, rule_result, response_text, run_result, sent, requests,
                 kernel>>

NextLoop ==
  \/ StartRun
  \/ Request
  \/ Exhausted
  \/ Receive
  \/ ClientError
  \/ ExecuteAction

\* One run of the ReAct agent against every scripted completion client.
SpecLoop == Init /\ [][NextLoop]_vars

\* ------------------------------------------------- run after run, one agent
\* Variant: the new question is added to the chat history of the run before.
StartNextRun_keeping_history ==
  /\ pc = "done"
  /\ Len(agent_state.shopping_history) < MaxHistory
  /\ chat_history' = Append(chat_history, Message("user", <<Line("Question:", "q2")>>))
  /\ current_iteration' = NewIteration
  /\ iteration_num' = 0
  /\ response_text' = <<>>
  /\ run_result' = None
  /\ sent' = <<>>
  /\ requests' = 0
  /\ tool_calls' = 0
  /\ pc' = "loop"
  /\ raised' = "none"
  /\ UNCHANGED <<worldVars, kernel>>

\* Variant: a run that starts from a fresh world state.
StartNextRun_fresh_world ==
  /\ pc = "done"
  /\ Len(agent_state.shopping_history) < MaxHistory
  /\ agent_state' = NewAgentState
  /\ chat_history' = <<Message("user", <<Line("Question:", "q2")>>)>>
  /\ current_iteration' = NewIteration
  /\ iteration_num' = 0
  /\ response_text' = <<>>
  /\ run_result' = None
  /\ sent' = <<>>
  /\ requests' = 0
  /\ tool_calls' = 0
  /\ pc' = "loop"
  /\ raised' = "none"
  /\ UNCHANGED <<call, result, rule_result, kernel>>

\* run_async called again on the same agent after a run has returned: a new
\* ChatHistory holding the new question, the locals of the call initialised anew.
StartNextRun ==
  /\ pc = "done"
  /\ Len(agent_state.shopping_history) < MaxHistory
  /\ chat_history' = <<Message("user", <<Line("Question:", "q2")>>)>>
  /\ current_iteration' = NewIteration
  /\ iteration_num' = 0
  /\ response_text' = <<>>
  /\ run_result' = None
  /\ sent' = <<>>
  /\ requests' = 0
  /\ tool_calls' = 0
  /\ pc' = "loop"
  /\ raised' = "none"
  /\ UNCHANGED <<worldVars, kernel>>

NextRuns ==
  \/ NextLoop
  \/ StartNextRun

\* Runs of one agent one after the other, the world state carried along.
SpecRuns == Init /\ [][NextRuns]_vars

\* PolicyEnforcerAgent.reset(), called by the host while no run is going on:
\* reset_state() and then ReActAgent.reset(), which installs an empty ChatHistory.
AgentReset ==
  /\ pc \in {"idle", "done"}
  /\ agent_state' = NewAgentState
  /\ chat_history' = <<>>
  /\ call' = [tool |-> "reset", arg |-> "", by |-> 0]
  /\ UNCHANGED <<result, rule_result, pc, iteration_num, current_iteration, response_text,
                 run_result, sent, requests, tool_calls, raised, kernel>>

NextSessions ==
  \/ NextRuns
  \/ AgentReset

\* Runs of one agent one after the other, the host resetting the agent at will
\* between them.
SpecSessions == Init /\ [][NextSessions]_vars

\* ------------------------------------------- one run on either kernel
Kernels == {Plugins, PluginsTwice}

InitKernel ==
  /\ InitWorld
  /\ pc = "idle"
  /\ iteration_num = 0
  /\ chat_history = <<>>
  /\ current_iteration = NewIteration
  /\ response_text = <<>>
  /\ run_result = None
  /\ sent = <<>>
  /\ requests = 0
  /\ tool_calls = 0
  /\ raised = "none"
  /\ kernel \in Kernels

\* One run of a ReActAgent constructed with either kernel.
SpecKernel == InitKernel /\ [][NextLoop]_vars

\* ==================================================================== claims
\* Case-insensitive ownership, as the claims word it.
Owns(st, name) == \E x \in st.inventory : Lower(x) = Lower(name)
IsRuleCheck(activity) ==
  /\ call.tool = "check_activity_rules"
  /\ call.arg = activity
  /\ ~IsNone(rule_result)
Reason == Value(Value(rule_result).reason)
HasFinalLine(response) == \E i \in DOMAIN response : response[i][1] = "Final Answer:"
FirstFinalText(response) ==
  response[CHOOSE i \in DOMAIN response :
             /\ response[i][1] = "Final Answer:"
             /\ \A j \in 1..(i - 1) : response[j][1] # "Final Answer:"][2]

\* C1: a choose_activity call changes chosen_activity only to its argument, and only when
\* the argument is a valid activity that check_activity_rules allows on the state at the
\* call; a denied call returns 'Rule violation:' followed by the reason and changes nothing.
C1_ChooseActivityGuarded ==
  [][ call'.tool = "choose_activity" =>
        LET A == call'.arg
            res == check_activity_rules(agent_state, A)
        IN /\ agent_state'.chosen_activity # agent_state.chosen_activity
                => /\ agent_state'.chosen_activity = Some(A)
                   /\ A \in ActivityValues
                   /\ res.allowed
           /\ Contains(result', "Activity chosen:")
                => A \in ActivityValues /\ res.allowed
           /\ (A \in ActivityValues /\ ~res.allowed)
                => /\ result' = <<"(x)", "Rule violation:">> \o Value(res.reason)
                   /\ agent_state' = agent_state ]_vars

\* C1 witness: a denied choice left an earlier choice and the inventory in place.
C1_Witness ==
  /\ call.tool = "choose_activity"
  /\ call.arg = GO_CAMPING
  /\ Contains(result, "Rule violation:")
  /\ agent_state.chosen_activity = Some(PLAY_GAMES)
  /\ agent_state.weather = RAINING

\* C2: check_activity_rules allows exactly: Play games with TV and Xbox; Go Camping with
\* Hiking Boots in sunny or snowing weather; Swimming with Goggles in sunny or raining
\* weather (names compared ignoring case).
C2_AllowedExactly ==
  \A activity \in ActivityValues :
    IsRuleCheck(activity) =>
      ( Value(rule_result).allowed <=>
          CASE activity = PLAY_GAMES ->
                 Owns(agent_state, "TV") /\ Owns(agent_state, "Xbox")
            [] activity = GO_CAMPING ->
                 Owns(agent_state, "Hiking Boots") /\ agent_state.weather \in {SUNNY, SNOWING}
            [] activity = SWIMMING ->
                 Owns(agent_state, "Goggles") /\ agent_state.weather \in {SUNNY, RAINING} )

\* C2 witness: camping allowed in snow with boots stored in lower case.
C2_Witness ==
  /\ IsRuleCheck(GO_CAMPING)
  /\ agent_state.inventory = {"hiking boots"}
  /\ agent_state.weather = SNOWING
  /\ Value(rule_result).allowed

\* C3: the first check_weather call succeeds and leaves a weather other than unknown;
\* every later one is denied with 'already been checked' and changes nothing; no tool
\* call changes a known weather.
C3_WeatherCheckedOnce ==
  [][ /\ (call'.tool = "check_weather" /\ ~agent_state.weather_checked)
           => /\ agent_state'.weather \in {SUNNY, RAINING, SNOWING}
              /\ agent_state'.weather_checked
              /\ result' = <<"Weather check complete! Current weather:",
                             agent_state'.weather, "Weather status: Known and checked">>
      /\ (call'.tool = "check_weather" /\ agent_state.weather_checked)
           => /\ Contains(result', "Rule violation:")
              /\ Contains(result', "already been checked")
              /\ agent_state' = agent_state
      /\ agent_state.weather # UNKNOWN => agent_state'.weather = agent_state.weather ]_vars

\* C3 witness: a second weather check was denied.
C3_Witness ==
  /\ call.tool = "check_weather"
  /\ Contains(result, "already been checked")
  /\ agent_state.weather = RAINING
  /\ agent_state.weather_checked

\* C4: a weather other than unknown implies weather_checked.
C4_KnownWeatherIsChecked ==
  agent_state.weather # UNKNOWN => agent_state.weather_checked

\* C4 witness: set_weather made the weather known.
C4_Witness ==
  /\ call.tool = "set_weather"
  /\ agent_state.weather = SNOWING
  /\ agent_state.weather_checked

\* No response of the run so far holds a 'Final Answer:' line.
NoFinalAnswerLine ==
  /\ ~HasFinalLine(response_text)
  /\ \A i \in DOMAIN chat_history :
       chat_history[i].role = "assistant" => ~HasFinalLine(chat_history[i].content)

\* C5: never more than max_iterations requests; a run without a 'Final Answer:' line and
\* without a client error ends with the maximum-iterations outcome after exactly
\* max_iterations requests.
C5_ExactlyMaxIterations ==
  /\ requests <= MaxIterations
  /\ (pc = "done" /\ NoFinalAnswerLine /\ raised # "client")
       => /\ Value(run_result).kind = "max_iterations"
          /\ requests = MaxIterations
  /\ (~IsNone(run_result) /\ Value(run_result).kind = "max_iterations")
       => requests = MaxIterations /\ iteration_num = MaxIterations

\* C5 witness: the budget ran out over a stalled turn, an unresolved action and a tool call.
C5_Witness ==
  /\ pc = "done"
  /\ Value(run_result).kind = "max_iterations"
  /\ NoFinalAnswerLine
  /\ tool_calls = 1
  /\ Len(chat_history) = 2 * MaxIterations
  /\ \E i \in DOMAIN chat_history : chat_history[i].content = RespUnknownTool

\* C6 as claimed: a received response holding a 'Final Answer:' line ends the run with the
\* text of the first such line, runs no tool and leaves the world state alone.
C6_FinalAnswerTerminates ==
  [][ (pc = "streaming" /\ pc' # "streaming" /\ raised' # "client"
         /\ HasFinalLine(response_text'))
        => /\ pc' = "done"
           /\ run_result' = Some([kind |-> "final", text |-> FirstFinalText(response_text')])
           /\ agent_state' = agent_state
           /\ tool_calls' = tool_calls ]_vars

\* C7 as claimed: any raised error, the client's or a tool's, ends the run with an error.
C7_AnyErrorAborts ==
  raised \in {"client", "tool"}
    => pc = "done" /\ ~IsNone(run_result) /\ Value(run_result).kind = "error"

\* C7 amended: a client error ends the run with the error outcome at once, and nothing
\* further is enabled; an error raised in a tool invocation becomes the observation of
\* the turn and the loop goes on.
C7_ClientErrorAborts ==
  /\ raised = "client"
       => /\ pc = "done"
          /\ ~IsNone(run_result) /\ Value(run_result).kind = "error"
          /\ ~ENABLED NextLoop
  /\ (~IsNone(run_result) /\ Value(run_result).kind = "error") => raised = "client"
  /\ raised \in {"tool", "lookup"}
       => /\ pc = "loop"
          /\ IsNone(run_result)
          /\ Contains(chat_history[Len(chat_history)].content[1][2], "Error executing action")

\* C7 witness: a tool invocation raised and the run is going on.
C7_Witness ==
  /\ raised = "tool"
  /\ pc = "loop"
  /\ iteration_num = 1
  /\ response_text = RespList

\* What an instance's tools and rule checks observe.
View(st) == <<st.inventory, st.weather, st.chosen_activity>>

\* C8 as claimed: a tool call by one instance leaves what the other instance observes unchanged.
C8_InstancesIsolated ==
  [][ \A a \in Agents :
        (call'.by = a /\ call'.tool \in ToolNames)
          => \A b \in Agents \ {a} : View(get_state(b))' = View(get_state(b)) ]_vars

\* C8 amended: the instances share the module-level state: what one instance purchased,
\* checked or chose is what the other instance observes.
C8_InstancesShareState ==
  \A a \in Agents : \A b \in Agents \ {a} :
    call.by = a =>
      /\ (call.tool = "shopping" /\ Contains(result, "Successfully purchased:"))
           => normalize_item_name(call.arg) \in get_state(b).inventory
      /\ (call.tool = "check_weather" /\ Contains(result, "Weather check complete! Current weather:"))
           => /\ get_state(b).weather = result[2]
              /\ ~check_tool_rules(get_state(b), "check_weather").allowed
      /\ (call.tool = "choose_activity" /\ Contains(result, "Activity chosen:"))
           => get_state(b).chosen_activity = Some(call.arg)

\* C8 witness: instance 1 bought the Xbox after instance 2 had bought the TV.
C8_Witness ==
  /\ call.by = 1
  /\ call.tool = "shopping"
  /\ call.arg = "XBOX"
  /\ agent_state.shopping_history = <<"TV", "Xbox">>

LacksEquipment(st, activity) ==
  \/ activity = GO_CAMPING /\ ~Owns(st, "Hiking Boots")
  \/ activity = SWIMMING /\ ~Owns(st, "Goggles")

CatalogNames(name) == {c \in ItemValues : name # "" /\ Lower(c) = Lower(name)}
HasGamingSet(st) == {"TV", "Xbox"} \subseteq st.inventory
WellFormed(r) ==
  \/ r.allowed /\ IsNone(r.reason)
  \/ ~r.allowed /\ ~IsNone(r.reason) /\ Value(r.reason) # <<>>

\* C11: whenever the inventory holds both TV and Xbox, check_activity_rules allows
\* 'Play games' whatever the weather and the weather_checked flag are, and a
\* choose_activity('Play games') call made in such a state reports the activity as chosen
\* and records it.
C11_GamingIgnoresWeather ==
  [][ /\ HasGamingSet(agent_state')
          => check_activity_rules(agent_state', PLAY_GAMES) = Allow
      /\ ( /\ call'.tool = "choose_activity"
           /\ call'.arg = PLAY_GAMES
           /\ HasGamingSet(agent_state) )
          => /\ Contains(result', "Activity chosen:")
             /\ ~Contains(result', "Rule violation:")
             /\ agent_state'.chosen_activity = Some(PLAY_GAMES) ]_vars

C11_Witness ==
  /\ call.tool = "choose_activity"
  /\ call.arg = PLAY_GAMES
  /\ HasGamingSet(agent_state)
  /\ agent_state.weather = RAINING
  /\ agent_state.chosen_activity = Some(PLAY_GAMES)
  /\ Contains(result, "Activity chosen:")

C13_ReasonNamesMissing ==
  LET lacking == SelectSeq(<<"TV", "Xbox">>, LAMBDA item : ~Owns(agent_state, item))
      expected == <<"Cannot play games. Missing required items:">> \o Join(",", lacking)
      rule == PlayGamesRule(agent_state, PLAY_GAMES)
  IN /\ rule.allowed <=> lacking = <<>>
     /\ ~rule.allowed => Value(rule.reason) = expected
     /\ (IsRuleCheck(PLAY_GAMES) /\ lacking # <<>>)
          => /\ ~Value(rule_result).allowed
             /\ Reason = expected

C13_Witness ==
  /\ IsRuleCheck(PLAY_GAMES)
  /\ agent_state.inventory = {"TV", "Goggles"}
  /\ Reason = <<"Cannot play games. Missing required items:", "Xbox">>

\* C14: every result of a single rule's check, of check_activity_rules and of
\* check_tool_rules is either allowed with no reason or denied with a non-empty reason.
C14_AllowOrDenyWithReason ==
  /\ ~IsNone(rule_result) => WellFormed(Value(rule_result))
  /\ \A A \in ActivityArgs :
        /\ \A i \in 1..6 : WellFormed(ActivityRuleResults(agent_state, A)[i])
        /\ WellFormed(check_activity_rules(agent_state, A))
  /\ \A t \in ToolNames :
        /\ WellFormed(WeatherCheckRule(agent_state, t))
        /\ WellFormed(check_tool_rules(agent_state, t))

C14_Witness ==
  /\ call.tool = "check_tool_rules"
  /\ call.arg = "check_weather"
  /\ ~IsNone(rule_result)
  /\ ~Value(rule_result).allowed
  /\ Value(Value(rule_result).reason) # <<>>

\* C15: a rule evaluation (check_activity_rules or check_tool_rules) leaves inventory,
\* weather, weather_checked, chosen_activity and shopping_history as they were, and the
\* result it returned is what the same check gives on the state it leaves.
C15_RulesDoNotMutate ==
  [][ call'.tool \in {"check_activity_rules", "check_tool_rules"} =>
        /\ agent_state'.inventory = agent_state.inventory
        /\ agent_state'.weather = agent_state.weather
        /\ agent_state'.weather_checked = agent_state.weather_checked
        /\ agent_state'.chosen_activity = agent_state.chosen_activity
        /\ agent_state'.shopping_history = agent_state.shopping_history
        /\ rule_result' =
             Some(IF call'.tool = "check_activity_rules"
                  THEN check_activity_rules(agent_state', call'.arg)
                  ELSE check_tool_rules(agent_state', call'.arg)) ]_vars

C15_Witness ==
  /\ IsRuleCheck(SWIMMING)
  /\ ~Value(rule_result).allowed
  /\ agent_state.inventory = {"Goggles"}
  /\ agent_state.weather = SNOWING
  /\ agent_state.weather_checked
  /\ agent_state.chosen_activity = None
  /\ agent_state.shopping_history = <<>>

\* C16: a shopping call succeeds exactly when its item equals a catalog name ignoring
\* case, and the catalog's spelling of that name is then in the inventory; for any other
\* item, the empty one included, it returns an error string and leaves inventory and
\* shopping_history as they were; the inventory never holds anything but catalog names.
C16_ShoppingValidates ==
  [][ /\ agent_state'.inventory \subseteq ItemValues
      /\ call'.tool = "shopping" =>
            LET item == call'.arg
                succeeded == Contains(result', "Successfully purchased:")
            IN /\ succeeded <=> CatalogNames(item) # {}
               /\ ~Contains(result', "Rule violation:")
               /\ succeeded =>
                     /\ result'[1] # "(x)"
                     /\ CatalogNames(item) \subseteq agent_state'.inventory
                     /\ agent_state'.inventory = agent_state.inventory \cup CatalogNames(item)
               /\ ~succeeded =>
                     /\ result'[1] = "(x)"
                     /\ agent_state'.inventory = agent_state.inventory
                     /\ agent_state'.shopping_history = agent_state.shopping_history ]_vars

C16_Witness ==
  /\ call.tool = "shopping"
  /\ call.arg = "XBOX"
  /\ Contains(result, "Successfully purchased:")
  /\ "Xbox" \in agent_state.inventory
  /\ "XBOX" \notin agent_state.inventory

\* A has_item(m) call, or a has_items([m]) call with a single name.
IsQuery == call.tool = "has_item" \/ (call.tool = "has_items" /\ Len(call.arg) = 1)
Queried == IF call.tool = "has_item" THEN call.arg ELSE call.arg[1]
\* Some add_to_inventory since the last reset was given a name equal to m up to case
\* (the history keeps each added name up to case).
AddedUpToCase(m) ==
  \E i \in DOMAIN agent_state.shopping_history :
    Lower(agent_state.shopping_history[i]) = Lower(m)
IsPrefix(xs, ys) == Len(xs) <= Len(ys) /\ SubSeq(ys, 1, Len(xs)) = xs

\* C17 as stated: after add_to_inventory(n), has_item(m) and has_items([m]) return true
\* for every m equal to n up to letter case.
C17_RoundTripAnyCase ==
  (IsQuery /\ AddedUpToCase(Queried)) => result = Some(TRUE)

\* C17: after add_to_inventory(n), has_item(m) and has_items([m]) for an m equal to n up to
\* letter case return true exactly when m is the spelling the inventory stores: the
\* catalog's spelling when n names a catalog item, the spelling that was added otherwise.
C17_RoundTripStoredSpelling ==
  (IsQuery /\ AddedUpToCase(Queried)) =>
    result = Some(IF CatalogNames(Queried) # {}
                  THEN Queried \in ItemValues
                  ELSE \E i \in DOMAIN agent_state.shopping_history :
                         agent_state.shopping_history[i] = Queried)

C17_Witness ==
  /\ call.tool = "has_item"
  /\ call.arg = "tv"
  /\ agent_state.shopping_history = <<"TV">>
  /\ agent_state.inventory = {"TV"}
  /\ result = Some(FALSE)

\* C18 as stated: add_to_inventory of a name already owned in any casing leaves the
\* inventory set unchanged; every call appends the normalized name to shopping_history,
\* whose earlier entries never change.
C18_IdempotentAnyCase ==
  [][ /\ call'.tool = "add_to_inventory" =>
            /\ Owns(agent_state, call'.arg) => agent_state'.inventory = agent_state.inventory
            /\ \E e \in CatalogNames(call'.arg) \cup {call'.arg} :
                  /\ CatalogNames(call'.arg) # {} => e \in ItemValues
                  /\ agent_state'.shopping_history = Append(agent_state.shopping_history, e)
      /\ call'.tool # "reset_state" =>
            IsPrefix(agent_state.shopping_history, agent_state'.shopping_history) ]_vars

\* C18: add_to_inventory leaves the inventory set unchanged when the name is a catalog item
\* already owned, in any casing, or is already in the set in the very spelling given; every
\* call appends one entry, the normalized name, to shopping_history, whose earlier entries
\* stay as they are until reset_state replaces the state.
C18_IdempotentOnStoredNames ==
  [][ /\ call'.tool = "add_to_inventory" =>
            /\ ( \/ CatalogNames(call'.arg) \cap agent_state.inventory # {}
                 \/ call'.arg \in agent_state.inventory )
                 => agent_state'.inventory = agent_state.inventory
            /\ \E e \in CatalogNames(call'.arg) \cup {call'.arg} :
                  /\ CatalogNames(call'.arg) # {} => e \in ItemValues
                  /\ agent_state'.shopping_history = Append(agent_state.shopping_history, e)
      /\ call'.tool # "reset_state" =>
            IsPrefix(agent_state.shopping_history, agent_state'.shopping_history) ]_vars

C18_Witness ==
  /\ call.tool = "add_to_inventory"
  /\ call.arg = "tv"
  /\ agent_state.inventory = {"TV"}
  /\ agent_state.shopping_history = <<"TV", "TV", "TV">>

\* C19 as stated: add_to_inventory with a name that matches no registered item does not
\* add that name to the inventory.
C19_UnknownNameRejected ==
  (call.tool = "add_to_inventory" /\ CatalogNames(call.arg) = {})
    => call.arg \notin agent_state.inventory

\* C19: add_to_inventory with a name that matches no registered item returns normally,
\* puts the name as given into the inventory and appends it to shopping_history.
C19_UnknownNameStored ==
  [][ (call'.tool = "add_to_inventory" /\ CatalogNames(call'.arg) = {}) =>
        /\ result' = None
        /\ agent_state'.inventory = agent_state.inventory \cup {call'.arg}
        /\ agent_state'.shopping_history
             = Append(agent_state.shopping_history, call'.arg) ]_vars

C19_Witness ==
  /\ call.tool = "add_to_inventory"
  /\ call.arg = "Laptop"
  /\ agent_state.inventory = {"Laptop"}
  /\ agent_state.shopping_history = <<"Laptop">>

\* C20: choose_activity with an empty string or a string that is not an activity name
\* returns an invalid-input message without the 'Rule violation:' marker and changes no
\* state, also where the rule engine denies that string; a choose_activity answer that
\* carries the marker is always a denial of a valid activity name.
C20_MalformedIsNotViolation ==
  [][ call'.tool = "choose_activity" =>
        /\ call'.arg \notin ActivityValues =>
              /\ result' = IF call'.arg = ""
                           THEN <<"(x)", "No activity specified.">>
                           ELSE <<"(x)", "Invalid activity. Choose from:",
                                  "Play games", ",", "Go Camping", ",", "Swimming">>
              /\ ~Contains(result', "Rule violation:")
              /\ agent_state' = agent_state
        /\ Contains(result', "Rule violation:") =>
              /\ call'.arg \in ActivityValues
              /\ ~check_activity_rules(agent_state, call'.arg).allowed ]_vars

C20_Witness ==
  /\ call.tool = "choose_activity"
  /\ call.arg = "Unknown Activity"
  /\ agent_state.weather = UNKNOWN
  /\ ~check_activity_rules(agent_state, "Unknown Activity").allowed
  /\ result[2] = "Invalid activity. Choose from:"
  /\ agent_state.chosen_activity = None

\* A successful purchase of the catalog item c has been made (shopping_history keeps
\* every purchase, and nothing else writes it when only tools are called).
Purchased(st, c) ==
  \E i \in DOMAIN st.shopping_history : Lower(st.shopping_history[i]) = Lower(c)

\* C21: along any sequence of tool calls, choose_activity('Play games') succeeds, setting
\* chosen_activity to 'Play games', exactly when both TV and Xbox have been purchased
\* before, in whatever order and casing; otherwise it is denied, chosen_activity stays as
\* it was, and from the empty state the reason mentions both TV and Xbox.
C21_GamesAfterBothPurchases ==
  [][ (call'.tool = "choose_activity" /\ call'.arg = PLAY_GAMES) =>
        LET both == Purchased(agent_state, "TV") /\ Purchased(agent_state, "Xbox")
        IN /\ both => /\ Contains(result', "Activity chosen:")
                       /\ agent_state'.chosen_activity = Some(PLAY_GAMES)
           /\ ~both => /\ Contains(result', "Rule violation:")
                        /\ ~Contains(result', "Activity chosen:")
                        /\ agent_state' = agent_state
           /\ agent_state.shopping_history = <<>>
                => /\ Contains(result', "TV") /\ Contains(result', "Xbox")
                   /\ agent_state'.chosen_activity = None ]_vars

C21_Witness ==
  /\ call.tool = "choose_activity"
  /\ call.arg = PLAY_GAMES
  /\ agent_state.shopping_history = <<"Xbox", "TV">>
  /\ agent_state.chosen_activity = Some(PLAY_GAMES)
  /\ Contains(result, "Activity chosen:")

\* C22: check_weather changes only weather and weather_checked, shopping only inventory
\* and shopping_history, choose_activity only chosen_activity, check_state nothing; a
\* check_state call right after another returns the same string; chosen_activity changes
\* only in a successful choose_activity call, to that call's argument.
C22_ToolsKeepToTheirFields ==
  [][ LET old == agent_state
          new == agent_state'
      IN /\ call'.tool = "check_weather"
              => /\ new.inventory = old.inventory
                 /\ new.shopping_history = old.shopping_history
                 /\ new.chosen_activity = old.chosen_activity
         /\ call'.tool = "shopping"
              => /\ new.weather = old.weather
                 /\ new.weather_checked = old.weather_checked
                 /\ new.chosen_activity = old.chosen_activity
         /\ call'.tool = "choose_activity"
              => /\ new.inventory = old.inventory
                 /\ new.shopping_history = old.shopping_history
                 /\ new.weather = old.weather
                 /\ new.weather_checked = old.weather_checked
         /\ call'.tool = "check_state"
              => /\ new = old
                 /\ call.tool = "check_state" => result' = result
         /\ new.chosen_activity # old.chosen_activity
              => /\ call'.tool = "choose_activity"
                 /\ Contains(result', "Activity chosen:")
                 /\ new.chosen_activity = Some(call'.arg) ]_vars

C22_Witness ==
  /\ call.tool = "check_weather"
  /\ Contains(result, "Weather check complete! Current weather:")
  /\ agent_state.chosen_activity = Some(PLAY_GAMES)
  /\ agent_state.shopping_history = <<"TV", "Xbox">>

\* The entries a turn with a tool execution appends: the response, then its observation.
IsObservation(m) == m.role = "user" /\ m.content[1][1] = "Observation:"
EndsWithTurn(history, response) ==
  /\ Len(history) >= 2
  /\ history[Len(history) - 1] = Message("assistant", response)
  /\ IsObservation(history[Len(history)])

\* C23: turns are sequential: a tool runs only in the step that follows the complete
\* response of the turn, at most one per turn, and a request is issued only from the top of
\* the loop, after the turn before it has appended its entries; the client that answers
\* with the weather action and then with 'Final Answer: Done' makes the run return "Done"
\* after exactly 2 requests and one tool invocation.
C23_TurnsSequential ==
  [][ /\ tool_calls' # tool_calls
          => /\ pc = "executing"
             /\ tool_calls' = tool_calls + 1
             /\ requests' = requests
             /\ iteration_num' = iteration_num + 1
             /\ EndsWithTurn(chat_history', response_text)
      /\ pc = "executing"
          => /\ pc' = "loop"
             /\ requests' = requests
             /\ chat_history' = chat_history \o
                   << Message("assistant", response_text),
                      chat_history'[Len(chat_history')] >>
             /\ IsObservation(chat_history'[Len(chat_history')])
      /\ requests' # requests
          => /\ pc = "loop" /\ pc' = "streaming"
             /\ requests' = requests + 1
             /\ requests = iteration_num
             /\ tool_calls' = tool_calls
             /\ agent_state' = agent_state
      /\ tool_calls' <= iteration_num'
      /\ ( /\ pc' = "done"
           /\ raised' # "client"
           /\ response_text' = RespDone
           /\ Len(chat_history') = 3
           /\ chat_history'[2] = Message("assistant", RespWeather) )
          => /\ run_result' = Some([kind |-> "final", text |-> <<"Done">>])
             /\ requests' = 2
             /\ tool_calls' = 1 ]_vars

C23_Witness ==
  /\ pc = "done"
  /\ response_text = RespDone
  /\ Len(chat_history) = 3
  /\ chat_history[2] = Message("assistant", RespWeather)
  /\ IsObservation(chat_history[3])
  /\ run_result = Some([kind |-> "final", text |-> <<"Done">>])
  /\ requests = 2
  /\ tool_calls = 1
  /\ agent_state.weather_checked

IsQuestion(m) == m.role = "user" /\ Len(m.content) = 1 /\ m.content[1][1] = "Question:"

\* C24: a step that starts a run leaves a transcript holding that run's question and
\* nothing else; every other step leaves the entries already there in place and appends
\* only assistant entries holding the raw response and user entries holding an observation.
C24_TranscriptAppendOnly ==
  [][ IF pc \in {"idle", "done"} /\ pc' = "loop"
      THEN /\ Len(chat_history') = 1
           /\ IsQuestion(chat_history'[1])
           /\ chat_history'[1].content[1][2] = <<IF pc = "idle" THEN "q" ELSE "q2">>
      ELSE /\ IsPrefix(chat_history, chat_history')
           /\ \A i \in (Len(chat_history) + 1)..Len(chat_history') :
                 \/ chat_history'[i] = Message("assistant", response_text')
                 \/ IsObservation(chat_history'[i]) ]_vars

C24_Witness ==
  /\ pc = "loop"
  /\ Len(chat_history) = 3
  /\ chat_history[1] = Message("user", <<Line("Question:", "q2")>>)
  /\ chat_history[2] = Message("assistant", RespBuyTv)
  /\ IsObservation(chat_history[3])
  /\ agent_state.shopping_history = <<"TV", "TV">>

\* C25 as stated: the content handed to the completion client by a request holds every
\* line of every entry of the transcript so far: the question, the responses, the
\* observations.
C25_RequestCarriesTranscript ==
  [][ requests' # requests =>
        \A i \in DOMAIN chat_history : \A k \in DOMAIN chat_history[i].content :
          \E j \in DOMAIN sent' : sent'[j] = chat_history[i].content[k] ]_vars

\* The response names no action and gives no final answer.
NamesNoAction(response) ==
  \A i \in DOMAIN response : response[i][1] = "Action:" => response[i][2] = <<>>

Registered(plugins) == {<<plugins[i], PluginFunction(plugins[i])>> : i \in DOMAIN plugins}
\* The registered tools an action name can stand for.
Matches(plugins, action) ==
  IF HasDot(action)
  THEN {t \in Registered(plugins) : t = split_first_dot(action)}
  ELSE {t \in Registered(plugins) : t[2] = action}
ErrorObservation(m) == IsObservation(m) /\ m.content[1][2][1] = "(x)"

\* C27: when the action name of the turn stands for no registered tool (unknown plugin,
\* unknown function, unknown bare name), the run does not end: no tool runs, the world
\* state is unchanged, the response and an error observation are appended, and the loop
\* goes on with the turn counted.
C27_UnknownActionContinues ==
  [][ (pc = "executing" /\ Matches(kernel, current_iteration.action) = {})
        => /\ pc' = "loop"
           /\ IsNone(run_result')
           /\ tool_calls' = tool_calls
           /\ agent_state' = agent_state
           /\ Len(chat_history') = Len(chat_history) + 2
           /\ EndsWithTurn(chat_history', response_text)
           /\ ErrorObservation(chat_history'[Len(chat_history')])
           /\ iteration_num' = iteration_num + 1
           /\ iteration_num' <= MaxIterations ]_vars

C27_Witness ==
  /\ pc = "loop"
  /\ iteration_num = 3
  /\ tool_calls = 0
  /\ Len(chat_history) = 7
  /\ chat_history[2].content = RespUnknownPlugin
  /\ chat_history[4].content = RespUnknownTool
  /\ chat_history[6].content = RespBareUnknown
  /\ \A i \in {3, 5, 7} : ErrorObservation(chat_history[i])
  /\ agent_state = NewAgentState

\* The turn's action was carried out by a registered tool, or reached one that raised.
ToolReached == tool_calls' = tool_calls + 1 \/ raised' = "tool"
NothingRun ==
  /\ tool_calls' = tool_calls
  /\ raised' # "tool"
  /\ agent_state' = agent_state
  /\ ErrorObservation(chat_history'[Len(chat_history')])

C29_ActionInputAlwaysMap == current_iteration.action_input.type = "dict"

\* C30: reset_state leaves, whatever came before, an empty inventory, unknown weather,
\* weather_checked false, no chosen activity and an empty shopping_history, and the tool
\* call made next works on that state: check_state reports it, check_weather is not
\* refused, 'Play games' is denied, and a purchase is the only entry of the history.
C30_ResetGivesFreshState ==
  [][ /\ call'.tool = "reset_state"
          => /\ agent_state'.inventory = {}
             /\ agent_state'.weather = UNKNOWN
             /\ agent_state'.weather_checked = FALSE
             /\ agent_state'.chosen_activity = None
             /\ agent_state'.shopping_history = <<>>
      /\ (call.tool = "reset_state" /\ call'.tool = "check_state")
          => /\ Contains(result', "Empty")
             /\ Contains(result', "(Unknown)")
             /\ Contains(result', "None chosen")
      /\ (call.tool = "reset_state" /\ call'.tool = "check_weather")
          => /\ Contains(result', "Weather check complete! Current weather:")
             /\ agent_state'.weather \in weather_options
             /\ agent_state'.inventory = {}
      /\ (call.tool = "reset_state" /\ call'.tool = "choose_activity"
            /\ call'.arg \in ActivityValues)
          => /\ Contains(result', "Rule violation:")
             /\ agent_state' = agent_state
      /\ (call.tool = "reset_state" /\ call'.tool = "shopping")
          => \/ agent_state' = agent_state /\ result'[1] = "(x)"
             \/ /\ Len(agent_state'.shopping_history) = 1
                /\ agent_state'.inventory = {agent_state'.shopping_history[1]}
                /\ Lower(agent_state'.shopping_history[1]) = Lower(call'.arg) ]_vars

C30_Witness ==
  /\ call.tool = "reset_state"
  /\ Contains(result, "Activity chosen:")
  /\ Contains(result, "Xbox")
  /\ agent_state = NewAgentState

\* C31: the string a successful shopping call returns names the purchased item by the
\* catalog's spelling (shopping('tv') reports 'Successfully purchased: TV') and ends
\* with the listing of the inventory as it is after the purchase: catalog names only,
\* sorted, the purchased one among them.
C31_PurchaseNamesCanonical ==
  [][ (call'.tool = "shopping" /\ Contains(result', "Successfully purchased:")) =>
         /\ result'[2] \in CatalogNames(call'.arg)
         /\ CatalogNames(call'.arg) \subseteq agent_state'.inventory
         /\ agent_state'.inventory \subseteq ItemValues
         /\ SubSeq(result', 5, Len(result')) = Join(",", Sorted(agent_state'.inventory)) ]_vars

\* C32: the tool call of a turn uses only the action name and the action input parsed
\* from that turn's own response: what _execute_action is given, and so the state and
\* the observation it leaves, are those of the response parsed into a fresh
\* ReActIteration; nothing parsed in an earlier turn is carried over or combined.
C32_TurnUsesOwnFields ==
  [][ (pc = "executing" /\ pc' # "executing") =>
         LET own == _parse_response(response_text, NewIteration).cur
         IN /\ current_iteration.action = own.action
            /\ current_iteration.action_input = own.action_input
            /\ \E new_weather \in weather_options :
                 LET r == _execute_action(kernel, agent_state, own.action,
                                          own.action_input, new_weather)
                 IN /\ agent_state' = r.state
                    /\ chat_history'[Len(chat_history')]
                         = Message("user", <<<<"Observation:", r.out>>>>) ]_vars

\* The response has a line of this marker (with a non-empty rest, if text is asked for).
HasLineOf(response, marker, with_text) ==
  \E i \in DOMAIN response :
    response[i][1] = marker /\ (with_text => response[i][2] # <<>>)

\* C33: a turn invokes a tool only if the response it received holds an 'Action:' line
\* with a non-empty name and an 'Action Input:' line as well; a response with an
\* 'Action:' line and no 'Action Input:' line invokes no tool.
C33_ToolNeedsBothLines ==
  [][ (pc = "executing" /\ tool_calls' = tool_calls + 1) =>
         /\ HasLineOf(response_text, "Action:", TRUE)
         /\ HasLineOf(response_text, "Action Input:", FALSE) ]_vars

\* The state meets the policy of the activity it has chosen, if it has chosen one.
MeetsPolicy(st) ==
  /\ st.chosen_activity = Some(PLAY_GAMES) => {"TV", "Xbox"} \subseteq st.inventory
  /\ st.chosen_activity = Some(GO_CAMPING) =>
        "Hiking Boots" \in st.inventory /\ st.weather \in {SUNNY, SNOWING}
  /\ st.chosen_activity = Some(SWIMMING) =>
        "Goggles" \in st.inventory /\ st.weather \in {SUNNY, RAINING}

\* C34: in every state reached through tool calls alone, a chosen activity still meets
\* its policy (Play games: TV and Xbox owned; Go Camping: Hiking Boots owned and weather
\* sunny or snowing; Swimming: Goggles owned and weather sunny or raining), because no
\* tool call ever takes an item out of the inventory or changes a weather that is known.
C34_ChoiceStaysLawful ==
  [][ /\ MeetsPolicy(agent_state')
      /\ agent_state.inventory \subseteq agent_state'.inventory
      /\ agent_state.weather # UNKNOWN => agent_state'.weather = agent_state.weather ]_vars

\* Swimming was chosen in the rain, goggles owned; a purchase and a further weather
\* check came after the choice.
C34_Witness ==
  /\ agent_state.chosen_activity = Some(SWIMMING)
  /\ agent_state.weather = RAINING
  /\ agent_state.shopping_history = <<"Goggles", "TV">>
  /\ call.tool = "check_weather"
  /\ Contains(result, "Rule violation:")

\* The turn being executed calls check_weather.
CallsCheckWeather == Matches(kernel, current_iteration.action) = {<<"weather", "check_weather">>}
WeatherKnown(st) == st.weather_checked /\ st.weather # UNKNOWN

\* C35: starting a run replaces the transcript by the new question and leaves the world
\* state as the run before left it; the world state changes only in the tool call of a
\* turn or in a reset of the agent, which leaves the fresh state and an empty transcript.
\* So a check_weather in a run is refused with a rule violation whenever the weather
\* is known, be it from a run before, and draws the weather when it is not.
C35_WorldOutlivesRun ==
  [][ /\ (pc = "done" /\ pc' = "loop")
          => /\ agent_state' = agent_state
             /\ Len(chat_history') = 1
             /\ IsQuestion(chat_history'[1])
      /\ agent_state' # agent_state
          => \/ pc = "executing"
             \/ pc' = pc /\ pc \in {"idle", "done"} /\ call'.tool = "reset"
      /\ (pc' = pc /\ call'.tool = "reset" /\ chat_history' # chat_history)
          => agent_state' = NewAgentState /\ chat_history' = <<>>
      /\ (pc = "executing" /\ pc' = "loop" /\ CallsCheckWeather)
          => LET observation == chat_history'[Len(chat_history')].content[1][2]
             IN IF WeatherKnown(agent_state)
                THEN /\ agent_state' = agent_state
                     /\ Contains(observation, "Rule violation:")
                ELSE /\ agent_state'.weather \in weather_options
                     /\ agent_state'.weather_checked
                     /\ Contains(observation, "Weather check complete! Current weather:") ]_vars

\* The first turn of a second run asks for the weather, which a run before had drawn,
\* and is refused; the agent was never reset.
C35_Witness ==
  /\ call = NoCall
  /\ Len(chat_history) = 3
  /\ chat_history[1] = Message("user", <<Line("Question:", "q2")>>)
  /\ chat_history[2] = Message("assistant", RespWeather)
  /\ Contains(chat_history[3].content[1][2], "Rule violation:")
  /\ agent_state.weather = SNOWING
  /\ agent_state.inventory = {}

\* The kind of outcome a returned string reports.
Kind(out) ==
  IF Contains(out, "Rule violation:") THEN "rule violation"
  ELSE IF out[1] = "(x)" THEN "invalid input"
  ELSE "success"
\* The function a call is of, whichever variant was called.
FunctionOf(tool) ==
  CASE tool \in {"check_weather", "weather.check_weather"} -> "check_weather"
    [] tool \in {"shopping", "shopping.shopping"} -> "shopping"
    [] tool \in {"choose_activity", "activity.choose_activity"} -> "choose_activity"
    [] tool \in {"check_state", "state.check_state"} -> "check_state"
IsPluginCall(tool) ==
  tool \in {"weather.check_weather", "shopping.shopping", "activity.choose_activity",
            "state.check_state"}
ViaLangChain(st, function, arg, new_weather) ==
  CASE function = "check_weather" -> CheckWeatherTool_run(st, new_weather)
    [] function = "shopping" -> ShoppingTool_run(st, arg)
    [] function = "choose_activity" -> ChooseActivityTool_run(st, arg)
    [] function = "check_state" -> CheckStateTool_run(st)
ViaPlugin(st, function, arg, new_weather) ==
  CASE function = "check_weather" -> WeatherPlugin_check_weather(st, new_weather)
    [] function = "shopping" -> ShoppingPlugin_shopping(st, arg)
    [] function = "choose_activity" -> ActivityPlugin_choose_activity(st, arg)
    [] function = "check_state" -> StatePlugin_check_state(st)

\* C36: the LangChain tools entered through _run and the Semantic Kernel plugin functions
\* are the same transition system: whatever the state, the call, the argument and the
\* weather drawn, the call made through one variant leaves the state and reports the
\* kind of outcome (success, rule violation, invalid or empty input) that the same
\* call through the other variant leaves and reports.
C36_VariantsAgree ==
  [][ call' # call =>
        LET function == FunctionOf(call'.tool)
            taken(w) == IF IsPluginCall(call'.tool)
                        THEN ViaPlugin(agent_state, function, call'.arg, w)
                        ELSE ViaLangChain(agent_state, function, call'.arg, w)
            other(w) == IF IsPluginCall(call'.tool)
                        THEN ViaLangChain(agent_state, function, call'.arg, w)
                        ELSE ViaPlugin(agent_state, function, call'.arg, w)
            draws == {w \in weather_options :
                        taken(w).state = agent_state' /\ taken(w).out = result'}
        IN /\ draws # {}
           /\ \A w \in draws :
                /\ other(w).state = agent_state'
                /\ Kind(other(w).out) = Kind(result') ]_vars

\* The plugin bought a TV asked for in lower case, in a state that held an Xbox and had
\* Swimming chosen under a known weather.
C36_Witness ==
  /\ call = [tool |-> "shopping.shopping", arg |-> "tv", by |-> 0]
  /\ Kind(result) = "success"
  /\ agent_state.shopping_history = <<"Xbox", "TV">>
  /\ agent_state.chosen_activity = Some(SWIMMING)
  /\ agent_state.weather = RAINING

====
